---- MODULE Spec2Model ----
(***************************************************************************)
(* Luca learning companion: the remote-first content provider              *)
(* (ai_interface.py), the local content generator (content_generator.py),  *)
(* the progress store (data_store.py) and the session handlers of the main *)
(* window (main.py).                                                       *)
(*                                                                         *)
(* Strings are sequences of atoms: a whitespace character, a run of        *)
(* non-blank text, or a serialised JSON document.  str.strip, truthiness,  *)
(* str() and json.loads are computed on that representation.               *)
(***************************************************************************)
EXTENDS Integers, Sequences, FiniteSets, TLC

VARIABLES
    apiKey,     \* ai_interface.GEMINI_API_KEY is set (read once at import)
    rngPos,     \* words consumed from the module-level random generator
    pc,         \* position of the content operation in flight
    op,         \* "lesson" | "exercises" | "answer" | "local_exercises" | "none"
    args,       \* arguments of the operation in flight
    netCalls,   \* client.post calls issued by the operation in flight
    response,   \* what the endpoint answered to the operation in flight
    result,     \* what the operation returned or raised
    localCalls, \* local generator calls made by the operation in flight
    rngAtCall,  \* rngPos when the operation in flight was called
    mock,       \* which answers the mocked endpoint draws from
    files,      \* the data directory: path -> JSON document, or NoFile
    saved,      \* the progress last handed to save_progress
    loaded,     \* what load_progress returned since
    writable,   \* whether the data directory accepts writes
    page,       \* MainWindow.stacked_widget.currentWidget()
    student_id, \* MainWindow.student_id
    progress,   \* MainWindow.progress
    current_subject, current_grade, current_topic, current_lesson_text,
    grade_combo,    \* LessonListPage.grade_combo.currentData()
    subject_items,  \* the subjects LessonListPage.subject_combo offers
    subject_combo,  \* LessonListPage.subject_combo.currentData()
    topic_items,    \* the items of LessonListPage.topic_list
    topic_current,  \* LessonListPage.topic_list.currentItem()
    exercises, index, score, lesson_context, \* TestPage._exercises, ...
    feedback,       \* TestPage.feedback_box
    startProgress,  \* history: the record load_progress gave the session
    opened,         \* history: the lessons opened, in order of first opening
    quizOf,         \* history: the lesson the running quiz was started for
    quizzes,        \* history: the quizzes completed, in completion order
    gamePc,         \* run_labyrinth_game: "idle", "loop" or "returned"
    player,         \* Player.position, <<x, y>>
    running, won    \* the locals of run_labyrinth_game

contentVars == <<apiKey, rngPos, pc, op, args, netCalls, response, result,
                 localCalls, rngAtCall, mock>>

storeVars == <<files, saved, loaded, writable>>

listVars == <<grade_combo, subject_items, subject_combo, topic_items,
              topic_current>>

testVars == <<exercises, index, score, lesson_context, feedback>>

lessonVars == <<current_subject, current_grade, current_topic,
                current_lesson_text>>

historyVars == <<startProgress, opened, quizOf, quizzes>>

sessionVars == <<page, student_id, progress, lessonVars, listVars, testVars,
                 historyVars>>

gameVars == <<gamePc, player, running, won>>

\* what a step of a content operation leaves alone
stepFrame == <<storeVars, sessionVars, gameVars>>

vars == <<contentVars, storeVars, sessionVars, gameVars>>

(***************************************************************************)
(* Bounds of the model.                                                    *)
(***************************************************************************)
MaxCandidates == 2      \* candidates in one response body
MaxParts == 2           \* parts in one response body, over all candidates
MaxEntries == 2         \* entries of a JSON array returned as exercises
MaxDraws == 8           \* words drawn from the random generator in a run
MaxStored == 2          \* lessons of a record saved directly
MaxTests == 2           \* quizzes completed in a session
MaxEvents == 2          \* events pygame hands over in one frame
MaxScore == 2           \* points the score of a quiz is followed up to
MaxPoints == 1          \* right answers typed in one quiz of a whole session

(***************************************************************************)
(* Text.                                                                   *)
(***************************************************************************)
SP == [t |-> "ws", c |-> " "]
NL == [t |-> "ws", c |-> "\n"]
W(s) == [t |-> "w", s |-> s]
J(v) == [t |-> "json", v |-> v]

IsSpace(a) == a.t = "ws"

RECURSIVE lstrip(_)
lstrip(s) == IF s # <<>> /\ IsSpace(Head(s)) THEN lstrip(Tail(s)) ELSE s

RECURSIVE rstrip(_)
rstrip(s) ==
    IF s # <<>> /\ IsSpace(s[Len(s)]) THEN rstrip(SubSeq(s, 1, Len(s) - 1)) ELSE s

\* str.strip()
strip(s) == rstrip(lstrip(s))

\* bool(text)
Truthy(s) == Len(s) > 0

(***************************************************************************)
(* JSON values, as json.loads builds them.                                 *)
(***************************************************************************)
JNull == [k |-> "null"]
JNum(d) == [k |-> "num", d |-> d]
JStr(s) == [k |-> "str", s |-> s]
JList(items) == [k |-> "list", items |-> items]
JObj(f) == [k |-> "obj", f |-> f]

Absent == [has |-> FALSE]
Present(v) == [has |-> TRUE, v |-> v]

\* str(value)
Str(v) ==
    CASE v.k = "str" -> v.s
      [] v.k = "null" -> <<W("None")>>
      [] v.k = "num" -> <<W(v.d)>>
      [] OTHER -> <<W("<repr>")>>

\* json.loads(text): surrounding whitespace is skipped, anything else around
\* the document is a JSONDecodeError.
json_loads(text) ==
    LET body == strip(text)
    IN  IF Len(body) = 1 /\ body[1].t = "json"
        THEN [ok |-> TRUE, value |-> body[1].v]
        ELSE [ok |-> FALSE]

(***************************************************************************)
(* content_generator.py                                                    *)
(***************************************************************************)
LOCAL_CONTENT ==
    [Mathematics |->
        (3 :> ("Fractions" :>
                  [lesson |-> "Fractions represent equal parts of a whole. When we write a fraction like 1/2, the number on top (the numerator) tells us how many parts we have and the number on the bottom (the denominator) tells us how many equal parts the whole is divided into.",
                   concept |-> "Understanding halves, thirds, and quarters of shapes and groups."]
               @@ "Multiplication" :>
                  [lesson |-> "Multiplication is repeated addition. To find 3 x 4, add 4 three times (4 + 4 + 4 = 12). Arrays and equal groups help us visualise multiplication problems.",
                   concept |-> "Building fluency with times tables up to 5."])
         @@ 4 :> ("Decimals" :>
                  [lesson |-> "Decimals are another way to write fractions. 0.5 is the same as 1/2 because it represents 5 tenths. Each place to the right of the decimal point is worth ten times less than the place before it.",
                   concept |-> "Linking tenths and hundredths to place value charts."])),
     Science |->
        (3 :> ("Life Cycles" :>
                  [lesson |-> "Plants and animals go through life cycles. A butterfly starts as an egg, becomes a caterpillar, forms a chrysalis, and emerges as an adult butterfly. Each stage has a special job.",
                   concept |-> "Recognising patterns in living things."])
         @@ 4 :> ("Energy" :>
                  [lesson |-> "Energy is the ability to do work. It can take many forms such as light, heat, and movement. Energy can change from one form to another, like when electricity powers a lamp.",
                   concept |-> "Observing energy transfers in everyday situations."]))]

\* The (subject, grade, topic) triples of LOCAL_CONTENT.
InTable(subject, grade, topic) ==
    /\ subject \in DOMAIN LOCAL_CONTENT
    /\ grade \in DOMAIN LOCAL_CONTENT[subject]
    /\ topic \in DOMAIN LOCAL_CONTENT[subject][grade]

\* Mutant: the lookup answers an unknown triple with empty content instead
\* of raising.
select_content_lenient(subject, grade, topic) ==
    IF InTable(subject, grade, topic)
    THEN [ok |-> TRUE, content |-> LOCAL_CONTENT[subject][grade][topic]]
    ELSE [ok |-> TRUE, content |-> [lesson |-> "", concept |-> ""]]

select_content(subject, grade, topic) ==
    IF InTable(subject, grade, topic)
    THEN [ok |-> TRUE, content |-> LOCAL_CONTENT[subject][grade][topic]]
    ELSE [ok |-> FALSE]

Return(v) == [kind |-> "return", value |-> v]
Raise(e) == [kind |-> "raise", exc |-> e]

generate_local_lesson(subject, grade, topic) ==
    LET c == select_content(subject, grade, topic)
    IN  IF ~c.ok THEN Raise("KeyError")
        ELSE Return(<<W("Lesson Topic:"), SP, W(topic), NL,
                      W("Grade Level:"), SP, W(ToString(grade)), NL,
                      W("Subject:"), SP, W(subject), NL, NL,
                      W("Big Idea:"), SP, W(c.content.concept), NL, NL,
                      W("Key Learning:"), NL, W(c.content.lesson), NL, NL,
                      W("Try sketching or acting out the idea to help it stick!")>>)

\* topic.lower()
lower(topic) ==
    CASE topic = "Fractions" -> "fractions"
      [] topic = "Multiplication" -> "multiplication"
      [] topic = "Decimals" -> "decimals"
      [] topic = "Life Cycles" -> "life cycles"
      [] topic = "Energy" -> "energy"
      [] OTHER -> topic

\* word in lowered
Contains(lowered, word) ==
    <<lowered, word>> \in {<<"fractions", "fraction">>,
                           <<"multiplication", "multiplication">>,
                           <<"energy", "energy">>}

\* The top two bits of the successive 32-bit words of the generator seeded
\* with 1234; getrandbits(k), k <= 2, returns the top k bits of the next word.
SeededWords ==
    <<3, 3, 1, 0, 0, 0, 3, 3, 3, 3, 2, 0, 2, 2, 0, 0, 3, 1, 0, 0,
      0, 3, 3, 0, 1, 2, 2, 1, 2, 1, 0, 0, 0, 2, 0, 3, 0, 2, 1, 3>>

\* n.bit_length(), for the n a shuffle of at most three items asks for
bit_length(n) == IF n = 1 THEN 1 ELSE 2

getrandbits(k, pos) == SeededWords[pos + 1] \div (IF k = 1 THEN 2 ELSE 1)

\* Random._randbelow_with_getrandbits: draw k bits until the draw is below n
RECURSIVE randbelow(_, _)
randbelow(n, pos) ==
    LET r == getrandbits(bit_length(n), pos)
    IN  IF r >= n THEN randbelow(n, pos + 1) ELSE [r |-> r, pos |-> pos + 1]

\* Mutant: the exchange writes one of the two places only.
Swap_one_way(x, i, j) == [x EXCEPT ![i] = x[j]]

\* x[i], x[j] = x[j], x[i]
Swap(x, i, j) == [x EXCEPT ![i] = x[j], ![j] = x[i]]

\* random.shuffle(x): for i in reversed(range(1, len(x))): j = randbelow(i + 1)
RECURSIVE shuffle_from(_, _, _)
shuffle_from(x, i, pos) ==
    IF i < 1 THEN [x |-> x, pos |-> pos]
    ELSE LET d == randbelow(i + 1, pos)
         IN  shuffle_from(Swap(x, i + 1, d.r + 1), i - 1, d.pos)

shuffle(x, pos) == shuffle_from(x, Len(x) - 1, pos)

base_questions(subject, topic, concept) ==
    <<[question |-> <<W("Explain the main idea of"), SP, W(lower(topic)), SP,
                      W("in your own words.")>>,
       answer |-> <<W(concept)>>],
      [question |-> <<W("Give a real-life example related to"), SP,
                      W(lower(topic)), W(".")>>,
       answer |-> <<W(concept)>>]>>
    \o (IF subject = "Mathematics" /\ Contains(lower(topic), "fraction")
        THEN <<[question |-> <<W("What"), SP, W("fraction"), SP, W("of a"), SP,
                               W("pizza"), SP,
                               W("is left if you eat 3 of 8 slices?")>>,
                answer |-> <<W("5/8")>>]>>
        ELSE IF subject = "Mathematics" /\ Contains(lower(topic), "multiplication")
        THEN <<[question |-> <<W("Solve"), SP, W("4 TIMES 6"), W(".")>>,
                answer |-> <<W("24")>>]>>
        ELSE IF subject = "Science" /\ Contains(lower(topic), "energy")
        THEN <<[question |-> <<W("Name two forms of"), SP, W("energy"), SP,
                               W("you use at school.")>>,
                answer |-> <<W("light and sound")>>]>>
        ELSE <<>>)

\* Returns the result and the generator position after the shuffle.
generate_local_exercises(subject, grade, topic, pos) ==
    LET c == select_content(subject, grade, topic)
    IN  IF ~c.ok THEN [result |-> Raise("KeyError"), pos |-> pos]
        ELSE LET sh == shuffle(base_questions(subject, topic, c.content.concept), pos)
             IN  [result |->
                     Return([i \in 1..Len(sh.x) |->
                                [question |-> sh.x[i].question,
                                 expected_answer |-> sh.x[i].answer,
                                 hint |-> <<W("Think about:"), SP,
                                            W(c.content.concept)>>]]),
                  pos |-> sh.pos]

\* question.lower() holds the word: the atoms of the question that do
Mentions(question, word) ==
    \E i \in 1..Len(question) :
        /\ question[i].t = "w"
        /\ <<question[i].s, word>> \in
              {<<"fraction", "fraction">>, <<"fractions", "fraction">>,
               <<"pizza", "pizza">>, <<"energy", "energy">>,
               <<"4 TIMES 6", "4 TIMES 6">>, <<"4 x 6", "4 x 6">>,
               <<"4 X 6", "4 x 6">>}

answer_question_locally(question, context) ==
    IF Mentions(question, "fraction") /\ Mentions(question, "pizza")
    THEN <<W("If 3 of 8 slices are eaten, 5/8 of the pizza remains.")>>
    ELSE IF Mentions(question, "4 TIMES 6") \/ Mentions(question, "4 x 6")
    THEN <<W("4 TIMES 6 equals 24.")>>
    ELSE IF Mentions(question, "energy")
    THEN <<W("Common forms include light, sound, and heat energy.")>>
    ELSE <<W("Think back to the main idea of the lesson. Highlight key words in the question and match them to details from the lesson text.")>>

(***************************************************************************)
(* ai_interface.py                                                         *)
(***************************************************************************)
\* What client.post(...) brings back: the call raises (network error or
\* timeout), the status is an error, the body is not the expected JSON
\* object, or the body is an object whose "candidates" are given as the
\* list of each candidate's content.parts.
NetworkError == [kind |-> "network_error"]
HttpError == [kind |-> "http_error"]
Malformed == [kind |-> "malformed"]
Body(candidates) == [kind |-> "body", candidates |-> candidates]

NoText == [has |-> FALSE]
TextPart(text) == [has |-> TRUE, text |-> text]

\* Mutant: the scan tests "text is not None" and so stops at an empty text.
RECURSIVE first_text_in_parts_present(_)
first_text_in_parts_present(parts) ==
    IF parts = <<>> THEN [ok |-> FALSE]
    ELSE IF Head(parts).has
         THEN [ok |-> TRUE, text |-> Head(parts).text]
         ELSE first_text_in_parts_present(Tail(parts))

\* for part in parts: text = part.get("text"); if text: return text
RECURSIVE first_text_in_parts(_)
first_text_in_parts(parts) ==
    IF parts = <<>> THEN [ok |-> FALSE]
    ELSE IF Head(parts).has /\ Truthy(Head(parts).text)
         THEN [ok |-> TRUE, text |-> Head(parts).text]
         ELSE first_text_in_parts(Tail(parts))

\* for candidate in candidates: ...; raise RuntimeError when none has text
RECURSIVE first_text(_)
first_text(candidates) ==
    IF candidates = <<>> THEN [ok |-> FALSE]
    ELSE LET t == first_text_in_parts(Head(candidates))
         IN  IF t.ok THEN t ELSE first_text(Tail(candidates))

\* _request_from_gemini once the response is in: raise_for_status,
\* response.json(), then the scan of the candidates
read_response(r) ==
    IF r.kind # "body" THEN [ok |-> FALSE] ELSE first_text(r.candidates)

\* _request_from_gemini(prompt)
request_from_gemini(key, r) ==
    IF ~key THEN [ok |-> FALSE] ELSE read_response(r)

DefaultHint == <<W("Use clues from the lesson.")>>

get(obj, key, default) == IF obj[key].has THEN obj[key].v ELSE default

\* Mutant: the loop appends every entry, blank question or not.
RECURSIVE parse_entries_keep_blank(_)
parse_entries_keep_blank(entries) ==
    IF entries = <<>> THEN [ok |-> TRUE, parsed |-> <<>>]
    ELSE LET e == Head(entries)
             rest == parse_entries_keep_blank(Tail(entries))
         IN  IF e.k # "obj" THEN [ok |-> FALSE]
             ELSE IF ~rest.ok THEN [ok |-> FALSE]
             ELSE [ok |-> TRUE,
                   parsed |->
                      <<[question |->
                            strip(Str(get(e.f, "question", JStr(<<>>)))),
                         expected_answer |->
                            strip(Str(get(e.f, "expected_answer", JStr(<<>>)))),
                         hint |-> Str(get(e.f, "hint", JStr(DefaultHint)))]>>
                      \o rest.parsed]

\* the loop over the parsed list: a non-dict entry raises ValueError, an
\* entry whose question is blank after strip() is skipped
RECURSIVE parse_entries(_)
parse_entries(entries) ==
    IF entries = <<>> THEN [ok |-> TRUE, parsed |-> <<>>]
    ELSE LET e == Head(entries)
             rest == parse_entries(Tail(entries))
         IN  IF e.k # "obj" THEN [ok |-> FALSE]
             ELSE IF ~rest.ok THEN [ok |-> FALSE]
             ELSE LET question == strip(Str(get(e.f, "question", JStr(<<>>))))
                      answer == strip(Str(get(e.f, "expected_answer", JStr(<<>>))))
                      hint == Str(get(e.f, "hint", JStr(DefaultHint)))
                  IN  [ok |-> TRUE,
                       parsed |->
                          (IF Truthy(question)
                           THEN <<[question |-> question,
                                   expected_answer |-> answer,
                                   hint |-> hint]>>
                           ELSE <<>>) \o rest.parsed]

\* Mutant: an empty parsed list is returned instead of raising.
parse_exercises_allow_empty(text) ==
    LET doc == json_loads(text)
    IN  IF ~doc.ok THEN [ok |-> FALSE]
        ELSE IF doc.value.k # "list" THEN [ok |-> FALSE]
        ELSE LET p == parse_entries(doc.value.items)
             IN  IF p.ok
                 THEN [ok |-> TRUE, value |-> Return(p.parsed)]
                 ELSE [ok |-> FALSE]

\* the try block of generate_exercises after the text came back
parse_exercises(text) ==
    LET doc == json_loads(text)
    IN  IF ~doc.ok THEN [ok |-> FALSE]
        ELSE IF doc.value.k # "list" THEN [ok |-> FALSE]
        ELSE LET p == parse_entries(doc.value.items)
             IN  IF p.ok /\ p.parsed # <<>>
                 THEN [ok |-> TRUE, value |-> Return(p.parsed)]
                 ELSE [ok |-> FALSE]

\* The try block of each operation, given the outcome of the request:
\* ok with the value returned, or not ok when it raised.
try_lesson(x) ==
    IF x.ok THEN [ok |-> TRUE, value |-> Return(strip(x.text))] ELSE [ok |-> FALSE]

try_exercises(x) == IF x.ok THEN parse_exercises(x.text) ELSE [ok |-> FALSE]

try_answer(x) ==
    IF x.ok THEN [ok |-> TRUE, value |-> Return(strip(x.text))] ELSE [ok |-> FALSE]

try_block(o, x) ==
    CASE o = "lesson" -> try_lesson(x)
      [] o = "exercises" -> try_exercises(x)
      [] o = "answer" -> try_answer(x)

\* Mutant: the feedback fallback passes the lesson context as the question.
except_block_swapped(o, a, pos) ==
    CASE o = "lesson" ->
            [result |-> generate_local_lesson(a.subject, a.grade, a.topic),
             pos |-> pos]
      [] o = "exercises" ->
            generate_local_exercises(a.subject, a.grade, a.topic, pos)
      [] o = "answer" ->
            [result |-> Return(answer_question_locally(a.context, a.question)),
             pos |-> pos]

\* The except branch of each operation: the local generator, with the
\* generator position it leaves.
except_block(o, a, pos) ==
    CASE o = "lesson" ->
            [result |-> generate_local_lesson(a.subject, a.grade, a.topic),
             pos |-> pos]
      [] o = "exercises" ->
            generate_local_exercises(a.subject, a.grade, a.topic, pos)
      [] o = "answer" ->
            [result |-> Return(answer_question_locally(a.question, a.context)),
             pos |-> pos]

\* generate_lesson / generate_exercises / answer_question run to completion
\* (the *_sync wrappers): the result and the generator position after it.
run_operation(o, a, key, r, pos) ==
    LET t == try_block(o, request_from_gemini(key, r))
    IN  IF t.ok THEN [result |-> t.value, pos |-> pos] ELSE except_block(o, a, pos)

(***************************************************************************)
(* data_store.py.  A student id is a sequence of characters; a progress    *)
(* file holds the JSON document json.dump writes: objects as their members *)
(* in key order (sort_keys=True), arrays in order.                         *)
(***************************************************************************)
DEFAULT_DATA_DIR == <<"d", "a", "t", "a">>

\* os.sep
os_sep == "/"

\* student_id.replace(os.sep, "_")
replace_sep(sid) ==
    [i \in 1..Len(sid) |->
        IF sid[i] = os_sep THEN "_" ELSE sid[i]]

\* os.path.join(data_dir, f"{safe_id}.json")
progress_path(sid) ==
    DEFAULT_DATA_DIR \o <<os_sep>> \o replace_sep(sid) \o <<".json">>

DInt(n) == [k |-> "int", n |-> n]
DStr(s) == [k |-> "str", s |-> s]
DArray(items) == [k |-> "array", items |-> items]
DObject(members) == [k |-> "object", members |-> members]
Member(key, value) == [key |-> key, value |-> value]

\* the keys of the entries, as sort_keys orders them
SortedKeys == <<"grade", "score", "subject", "topic", "total">>

IntKeys == {"grade", "score", "total"}

\* json.dump of one lesson or test entry
dump_entry(e) ==
    LET present(key) == key \in DOMAIN e
        keys == SelectSeq(SortedKeys, present)
    IN  DObject([i \in 1..Len(keys) |->
                    Member(keys[i], IF keys[i] \in IntKeys THEN DInt(e[keys[i]])
                                    ELSE DStr(e[keys[i]]))])

dump_entries(entries) == DArray([i \in 1..Len(entries) |-> dump_entry(entries[i])])

\* json.dump(asdict(progress), handle, indent=2, sort_keys=True)
json_dump(record) ==
    DObject(<<Member("completed_lessons", dump_entries(record.completed_lessons)),
              Member("completed_tests", dump_entries(record.completed_tests)),
              Member("student_id", DStr(record.student_id))>>)

\* json.load(handle)
RECURSIVE json_load(_)
json_load(doc) ==
    CASE doc.k = "int" -> doc.n
      [] doc.k = "str" -> doc.s
      [] doc.k = "array" -> [i \in 1..Len(doc.items) |-> json_load(doc.items[i])]
      [] doc.k = "object" ->
            [key \in {doc.members[i].key : i \in 1..Len(doc.members)} |->
                json_load(doc.members[CHOOSE i \in 1..Len(doc.members) :
                                         doc.members[i].key = key].value)]

StudentProgress(sid, completed_lessons, completed_tests) ==
    [student_id |-> sid, completed_lessons |-> completed_lessons,
     completed_tests |-> completed_tests]

\* Mutant: the tests are read from the lessons' key.
from_dict_same_key(payload, sid) ==
    StudentProgress(sid,
        IF "completed_lessons" \in DOMAIN payload THEN payload.completed_lessons
        ELSE <<>>,
        IF "completed_lessons" \in DOMAIN payload THEN payload.completed_lessons
        ELSE <<>>)

\* StudentProgress.from_dict(payload, student_id)
from_dict(payload, sid) ==
    StudentProgress(sid,
        IF "completed_lessons" \in DOMAIN payload THEN payload.completed_lessons
        ELSE <<>>,
        IF "completed_tests" \in DOMAIN payload THEN payload.completed_tests
        ELSE <<>>)

NoFile == [k |-> "nofile"]

\* save_progress(progress): the disk after it
save_progress(record, disk) ==
    [disk EXCEPT ![progress_path(record.student_id)] = json_dump(record)]

\* load_progress(student_id): what it returns
load_progress(sid, disk) ==
    IF disk[progress_path(sid)] = NoFile
    THEN StudentProgress(sid, <<>>, <<>>)
    ELSE from_dict(json_load(disk[progress_path(sid)]), sid)

(***************************************************************************)
(* Inputs: requests, questions and the answers of the endpoint.            *)
(***************************************************************************)
Request(s, g, t) == [subject |-> s, grade |-> g, topic |-> t]

TableRequests ==
    {Request(s, g, t) : <<s, g, t>> \in
        UNION {UNION {{<<s, g, t>> : t \in DOMAIN LOCAL_CONTENT[s][g]} :
                      g \in DOMAIN LOCAL_CONTENT[s]} : s \in DOMAIN LOCAL_CONTENT}}

AbsentRequests ==
    {Request("Mathematics", 4, "Fractions"), Request("History", 3, "Rome")}

Requests == TableRequests \cup AbsentRequests

Question(q) ==
    [question |-> q, context |-> <<W("lesson summary")>>,
     student_answer |-> <<W("7")>>]

Questions ==
    {Question(base_questions("Mathematics", "Fractions", "c")[i].question) :
        i \in 1..3}
    \cup {Question(base_questions("Mathematics", "Multiplication", "c")[3].question),
          Question(base_questions("Science", "Energy", "c")[3].question),
          Question(<<W("What is"), SP, W("4 x 6"), W("?")>>)}

PlainTexts == {<<>>, <<SP>>, <<SP, W("alpha"), NL>>, <<W("beta")>>}

PartChoices == {NoText} \cup {TextPart(t) : t \in PlainTexts}

\* the lists of n parts
PartLists(n) == [1..n -> PartChoices]

\* the candidate lists of at most nc candidates holding at most np parts
RECURSIVE CandidateLists(_, _)
CandidateLists(nc, np) ==
    IF nc = 0 THEN {<<>>}
    ELSE {<<>>} \cup
         UNION {{<<parts>> \o rest : parts \in PartLists(n),
                                     rest \in CandidateLists(nc - 1, np - n)} :
                n \in 0..np}

Failures == {NetworkError, HttpError, Malformed, Body(<<>>), Body(<<<<NoText>>>>)}

QuestionChoices ==
    {Absent, Present(JStr(<<SP>>)), Present(JStr(<<SP, W("q1"), SP>>)),
     Present(JNull)}

AnswerChoices == {Absent, Present(JStr(<<SP, W("5")>>))}

HintChoices == {Absent, Present(JStr(<<W("look"), SP>>))}

EntryChoices ==
    {JStr(<<W("oops")>>)}
    \cup {JObj([question |-> q, expected_answer |-> a, hint |-> h]) :
            q \in QuestionChoices, a \in AnswerChoices, h \in HintChoices}

EntryLists == UNION {[1..n -> EntryChoices] : n \in 0..MaxEntries}

SampleList ==
    JList(<<JObj([question |-> Present(JStr(<<W("q2")>>)),
                 expected_answer |-> Present(JNum("5")), hint |-> Absent])>>)

ExerciseTexts ==
    {<<J(JList(es))>> : es \in EntryLists}
    \cup {<<SP, J(SampleList), NL>>,
          <<W("Here are the questions:"), NL, J(SampleList)>>,
          <<J(SampleList.items[1])>>, <<J(JNum("5"))>>, <<W("Sorry.")>>}

FailureResponses ==
    Failures \cup {Body(<<<<TextPart(<<SP, W("alpha"), NL>>)>>>>),
                   Body(<<<<TextPart(<<J(SampleList)>>)>>>>)}

PayloadResponses == {Body(c) : c \in CandidateLists(MaxCandidates, MaxParts)}

ExerciseResponses == Failures \cup {Body(<<<<TextPart(t)>>>>) : t \in ExerciseTexts}

\* what the mocked endpoint may answer
Responses(m) ==
    CASE m = "failures" -> FailureResponses
      [] m = "payloads" -> PayloadResponses
      [] m = "exercises" -> ExerciseResponses

\* the calls made against each mock
Calls(m) ==
    CASE m = "failures" ->
            {<<o, a>> : o \in {"lesson", "exercises"}, a \in Requests}
            \cup {<<"answer", a>> : a \in Questions}
      [] m = "payloads" ->
            {<<"lesson", Request("Science", 4, "Energy")>>,
             <<"lesson", Request("History", 3, "Rome")>>,
             <<"exercises", Request("History", 3, "Rome")>>,
             <<"answer", Question(<<W("What is"), SP, W("4 x 6"), W("?")>>)>>}
      [] m = "exercises" ->
            {<<"exercises", Request("Mathematics", 3, "Fractions")>>,
             <<"exercises", Request("Science", 3, "Life Cycles")>>,
             <<"exercises", Request("History", 3, "Rome")>>}

NoArgs == [none |-> TRUE]
NoResponse == [kind |-> "none"]
NoResult == [kind |-> "none"]

(***************************************************************************)
(* One content operation, step by step.                                    *)
(***************************************************************************)
Finished == pc \in {"idle", "Success", "Done"}

\* generate_lesson / generate_exercises / answer_question is called
Call(o, a) ==
    /\ Finished
    /\ pc' = "Start"
    /\ op' = o
    /\ args' = a
    /\ netCalls' = 0
    /\ localCalls' = 0
    /\ response' = NoResponse
    /\ result' = NoResult
    /\ rngAtCall' = rngPos
    /\ UNCHANGED <<apiKey, rngPos, mock>>
    /\ UNCHANGED stepFrame

\* the prompt is built and _request_from_gemini is entered
EnterRequest ==
    /\ pc = "Start"
    /\ pc' = "RemoteAttempt"
    /\ UNCHANGED <<apiKey, rngPos, op, args, netCalls, response, result,
                   localCalls, rngAtCall, mock>>
    /\ UNCHANGED stepFrame

\* Mutant: the request is posted whether or not a key is configured.
PostRequest_unchecked ==
    /\ pc = "RemoteAttempt"
    /\ pc' = "Posted"
    /\ netCalls' = netCalls + 1
    /\ UNCHANGED <<apiKey, rngPos, op, args, response, result, localCalls,
                   rngAtCall, mock>>
    /\ UNCHANGED stepFrame

\* _request_from_gemini: without a key it raises at once, with one it posts
PostRequest ==
    /\ pc = "RemoteAttempt"
    /\ IF ~apiKey
       THEN /\ pc' = "LocalFallback"
            /\ UNCHANGED netCalls
       ELSE /\ pc' = "Posted"
            /\ netCalls' = netCalls + 1
    /\ UNCHANGED <<apiKey, rngPos, op, args, response, result, localCalls,
                   rngAtCall, mock>>
    /\ UNCHANGED stepFrame

\* the response arrives and the rest of the try block runs
Receive(r) ==
    /\ pc = "Posted"
    /\ response' = r
    /\ LET t == try_block(op, read_response(r))
       IN  IF t.ok
           THEN /\ result' = t.value
                /\ pc' = "Success"
           ELSE /\ pc' = "LocalFallback"
                /\ UNCHANGED result
    /\ UNCHANGED <<apiKey, rngPos, op, args, netCalls, localCalls, rngAtCall,
                   mock>>
    /\ UNCHANGED stepFrame

\* the except branch: the local generator answers, or its KeyError escapes
LocalFallback ==
    /\ pc = "LocalFallback"
    /\ LET e == except_block(op, args, rngPos)
       IN  /\ e.pos <= MaxDraws
           /\ result' = e.result
           /\ rngPos' = e.pos
    /\ localCalls' = localCalls + 1
    /\ pc' = "Done"
    /\ UNCHANGED <<apiKey, op, args, netCalls, response, rngAtCall, mock>>
    /\ UNCHANGED stepFrame

\* content_generator.generate_local_exercises called directly
CallLocalExercises(a) ==
    /\ Finished
    /\ LET e == generate_local_exercises(a.subject, a.grade, a.topic, rngPos)
       IN  /\ e.pos <= MaxDraws
           /\ result' = e.result
           /\ rngPos' = e.pos
    /\ op' = "local_exercises"
    /\ args' = a
    /\ pc' = "Done"
    /\ netCalls' = 0
    /\ localCalls' = 1
    /\ response' = NoResponse
    /\ rngAtCall' = rngPos
    /\ UNCHANGED <<apiKey, mock>>
    /\ UNCHANGED stepFrame

(***************************************************************************)
(* The progress store called directly.                                     *)
(***************************************************************************)
StoreIds == {<<"a", "n", "n">>, <<"a", "/", "b">>, <<"a", "_", "b">>}

Paths == {progress_path(id) : id \in StoreIds \cup {<<"s", "t", "u", "d", "e", "n", "t">>}}

Lesson(r) == [subject |-> r.subject, grade |-> r.grade, topic |-> r.topic]

Test(r, sc, tot) ==
    [subject |-> r.subject, grade |-> r.grade, topic |-> r.topic,
     score |-> sc, total |-> tot]

StoredLessons ==
    {Lesson(Request("Science", 4, "Energy")),
     Lesson(Request("Mathematics", 3, "Fractions"))}

StoredTests == {Test(Request("Science", 4, "Energy"), 1, 3)}

\* the records handed to save_progress
StoredRecords ==
    {StudentProgress(id, ls, ts) :
        id \in StoreIds,
        ls \in UNION {[1..n -> StoredLessons] : n \in 0..MaxStored},
        ts \in {<<>>} \cup {<<t>> : t \in StoredTests}}

NotSaved == [none |-> TRUE]
NotLoaded == [none |-> TRUE]

\* save_progress(p), returning
SaveProgress(p) ==
    /\ writable
    /\ files' = save_progress(p, files)
    /\ saved' = p
    /\ loaded' = NotLoaded
    /\ UNCHANGED <<writable, contentVars, sessionVars, gameVars>>

\* load_progress(id)
LoadProgress(id) ==
    /\ loaded' = load_progress(id, files)
    /\ UNCHANGED <<files, saved, writable, contentVars, sessionVars, gameVars>>

(***************************************************************************)
(* main.py: the pages and the handlers of MainWindow.                      *)
(***************************************************************************)
None == [has |-> FALSE]
Some(v) == [has |-> TRUE, v |-> v]

DefaultStudent == <<"s", "t", "u", "d", "e", "n", "t">>

\* QLineEdit.text().strip() of the name typed
RECURSIVE strip_name(_)
strip_name(typed) ==
    IF typed # <<>> /\ Head(typed) = " " THEN strip_name(Tail(typed))
    ELSE IF typed # <<>> /\ typed[Len(typed)] = " "
    THEN strip_name(SubSeq(typed, 1, Len(typed) - 1))
    ELSE typed

\* sorted(...) of names of the table
AlphabeticalOrder ==
    <<"Decimals", "Energy", "Fractions", "Life Cycles", "Mathematics",
      "Multiplication", "Science">>

sorted(names) ==
    LET member(n) == n \in names IN SelectSeq(AlphabeticalOrder, member)

get_available_grades ==
    LET grades == UNION {DOMAIN LOCAL_CONTENT[s] : s \in DOMAIN LOCAL_CONTENT}
        member(g) == g \in grades
    IN  SelectSeq(<<3, 4>>, member)

get_subjects_for_grade(grade) ==
    sorted({s \in DOMAIN LOCAL_CONTENT : grade \in DOMAIN LOCAL_CONTENT[s]})

get_topics(subject, grade) ==
    IF subject \in DOMAIN LOCAL_CONTENT /\ grade \in DOMAIN LOCAL_CONTENT[subject]
    THEN sorted(DOMAIN LOCAL_CONTENT[subject][grade])
    ELSE <<>>

Range(seq) == {seq[i] : i \in 1..Len(seq)}

\* LessonListPage._update_topics, with the subject combo at subject
update_topics(grade, subject) ==
    /\ topic_items' = (IF grade.has /\ subject.has
                       THEN get_topics(subject.v, grade.v) ELSE <<>>)
    /\ topic_current' = None

\* Mutant: the subjects are refilled but the selection and the topics stay.
update_subjects_keep_selection(grade) ==
    /\ subject_items' = (IF grade.has THEN get_subjects_for_grade(grade.v)
                         ELSE <<>>)
    /\ UNCHANGED <<subject_combo, topic_items, topic_current>>

\* LessonListPage._update_subjects: the combo is refilled and stands on
\* "Select subject" again
update_subjects(grade) ==
    /\ subject_items' = (IF grade.has THEN get_subjects_for_grade(grade.v)
                         ELSE <<>>)
    /\ subject_combo' = None
    /\ update_topics(grade, None)

\* Mutant: the record is written on the first save only.
persist_progress_first_only(p) ==
    files' = IF writable /\ files[progress_path(p.student_id)] = NoFile
             THEN save_progress(p, files) ELSE files

\* MainWindow._persist_progress: save_progress raises when the file cannot
\* be opened for writing; the exception is logged and the handler goes on
persist_progress(p) ==
    files' = IF writable THEN save_progress(p, files) ELSE files

\* IntroPage._handle_start_clicked, MainWindow._on_intro_started
StartClicked(typed) ==
    /\ page = "intro"
    /\ LET student_name == IF strip_name(typed) = <<>> THEN DefaultStudent
                           ELSE strip_name(typed)
       IN  /\ student_id' = student_name
           /\ progress' = load_progress(student_name, files)
           /\ startProgress' = load_progress(student_name, files)
    /\ update_subjects(grade_combo)
    /\ page' = "lesson_list"
    /\ UNCHANGED <<gameVars, contentVars, storeVars, lessonVars, grade_combo, testVars,
                   opened, quizOf, quizzes>>

\* grade_combo.currentIndexChanged -> LessonListPage._update_subjects
GradeChanged(grade) ==
    /\ page = "lesson_list"
    /\ grade # grade_combo
    /\ grade_combo' = grade
    /\ update_subjects(grade)
    /\ UNCHANGED <<gameVars, contentVars, storeVars, page, student_id, progress,
                   lessonVars, testVars, historyVars>>

\* subject_combo.currentIndexChanged -> LessonListPage._update_topics
SubjectChanged(subject) ==
    /\ page = "lesson_list"
    /\ subject # subject_combo
    /\ subject = None \/ (subject.has /\ subject.v \in Range(subject_items))
    /\ subject_combo' = subject
    /\ update_topics(grade_combo, subject)
    /\ UNCHANGED <<gameVars, contentVars, storeVars, page, student_id, progress,
                   lessonVars, grade_combo, subject_items, testVars,
                   historyVars>>

\* a click on an item of topic_list
TopicClicked(topic) ==
    /\ page = "lesson_list"
    /\ topic \in Range(topic_items)
    /\ topic_current' = Some(topic)
    /\ UNCHANGED <<gameVars, contentVars, storeVars, page, student_id, progress,
                   lessonVars, grade_combo, subject_items, subject_combo,
                   topic_items, testVars, historyVars>>

\* Mutant: the lesson is appended without the membership test.
record_lesson_always(lesson_entry) ==
    /\ progress' = [progress EXCEPT !.completed_lessons = Append(@, lesson_entry)]
    /\ persist_progress(progress')

\* the end of _open_lesson: "Update lesson progress if not already recorded"
record_lesson(lesson_entry) ==
    IF lesson_entry \notin Range(progress.completed_lessons)
    THEN /\ progress' = [progress EXCEPT
                            !.completed_lessons = Append(@, lesson_entry)]
         /\ persist_progress(progress')
    ELSE UNCHANGED <<progress, files>>

\* MainWindow._open_lesson(subject, grade, topic); r is what the endpoint
\* answers if it is asked
open_lesson(subject, grade, topic, r) ==
    LET out == run_operation("lesson", Request(subject, grade, topic), apiKey,
                             r, rngPos)
    IN  /\ current_subject' = Some(subject)
        /\ current_grade' = Some(grade)
        /\ current_topic' = Some(topic)
        /\ rngPos' = out.pos
        /\ IF out.result.kind = "raise"
           THEN \* the KeyError leaves the slot
                UNCHANGED <<page, current_lesson_text, progress, files, opened>>
           ELSE /\ current_lesson_text' = out.result.value
                /\ page' = "lesson"
                /\ record_lesson(Lesson(Request(subject, grade, topic)))
                /\ opened' = (IF Request(subject, grade, topic) \in Range(opened)
                              THEN opened
                              ELSE Append(opened, Request(subject, grade, topic)))

LessonResponses == {HttpError}

\* LessonListPage._open_selected_lesson -> lesson_selected -> _open_lesson
OpenLessonClicked(r) ==
    /\ page = "lesson_list"
    /\ IF ~grade_combo.has \/ ~subject_combo.has \/ ~topic_current.has
       THEN UNCHANGED <<rngPos, page, progress, lessonVars, files, opened>>
       ELSE open_lesson(subject_combo.v, grade_combo.v, topic_current.v, r)
    /\ UNCHANGED <<gameVars, apiKey, pc, op, args, netCalls, response, result, localCalls,
                   rngAtCall, mock, saved, loaded, writable, student_id, listVars,
                   testVars, startProgress, quizOf, quizzes>>

\* LessonPage.go_back / TestPage.back_requested / ProgressPage.back_requested
\* -> MainWindow._show_lesson_list
BackClicked ==
    /\ page \in {"lesson", "test", "progress"}
    /\ page' = "lesson_list"
    /\ UNCHANGED <<gameVars, contentVars, storeVars, student_id, progress, lessonVars,
                   listVars, testVars, historyVars>>

\* LessonListPage.progress_requested -> MainWindow._show_progress
ViewProgressClicked ==
    /\ page = "lesson_list"
    /\ page' = "progress"
    /\ UNCHANGED <<gameVars, contentVars, storeVars, student_id, progress, lessonVars,
                   listVars, testVars, historyVars>>

\* bool(...) of the current subject, grade or topic
Set(x) == x.has

\* Mutant: a new quiz starts at the question the last one stopped at.
load_exercises_keep_index(loaded_exercises, context) ==
    /\ exercises' = loaded_exercises
    /\ index' = index
    /\ score' = 0
    /\ lesson_context' = context
    /\ feedback' = <<>>

\* TestPage.load_exercises
load_exercises(loaded_exercises, context) ==
    /\ exercises' = loaded_exercises
    /\ index' = 0
    /\ score' = 0
    /\ lesson_context' = context
    /\ feedback' = <<>>

\* the quiz the endpoint sends when it answers
QuizList ==
    JList(<<JObj([question |-> Present(JStr(<<W("q1")>>)),
                 expected_answer |-> Present(JNum("5")), hint |-> Absent]),
            JObj([question |-> Present(JStr(<<W("q2")>>)),
                 expected_answer |-> Present(JStr(<<W("light and sound")>>)),
                 hint |-> Absent])>>)

QuizResponses == {Body(<<<<TextPart(<<J(QuizList)>>)>>>>)}

\* LessonPage.start_test -> MainWindow._start_test
StartTestClicked(r) ==
    /\ page = "lesson"
    /\ IF ~(Set(current_subject) /\ Set(current_grade) /\ Set(current_topic))
       THEN UNCHANGED <<rngPos, page, testVars, quizOf>>
       ELSE LET out == run_operation("exercises",
                           Request(current_subject.v, current_grade.v,
                                   current_topic.v), apiKey, r, rngPos)
            IN  /\ out.pos <= MaxDraws
                /\ rngPos' = out.pos
                /\ IF out.result.kind = "raise"
                   THEN UNCHANGED <<page, testVars, quizOf>>
                   ELSE IF out.result.value = <<>>
                   THEN UNCHANGED <<page, testVars, quizOf>>
                   ELSE /\ load_exercises(out.result.value, current_lesson_text)
                        /\ page' = "test"
                        /\ quizOf' = Request(current_subject.v, current_grade.v,
                                             current_topic.v)
    /\ UNCHANGED <<gameVars, apiKey, pc, op, args, netCalls, response, result, localCalls,
                   rngAtCall, mock, storeVars, student_id, progress, lessonVars,
                   listVars, startProgress, opened, quizzes>>

\* str.lower() of an answer: the typed answers of the model are lower case
\* but for one
lower_answer(text) ==
    IF text = <<W("LIGHT AND SOUND")>> THEN <<W("light and sound")>> ELSE text

AnswerResponses == {HttpError}

\* what the student may have typed when Submit is clicked
TypedAnswers(exercise) ==
    {<<>>, <<W("LIGHT AND SOUND")>>, <<SP>> \o exercise.expected_answer}

\* TestPage._handle_submit
SubmitClicked(typed, r) ==
    /\ page = "test"
    /\ IF exercises = <<>>
       THEN UNCHANGED <<score, feedback>>
       ELSE LET exercise == exercises[index + 1]
                student_answer == strip(typed)
                expected == strip(exercise.expected_answer)
                correct == Truthy(expected)
                           /\ lower_answer(student_answer) = lower_answer(expected)
            IN  IF correct
                THEN /\ score < MaxScore
                     /\ score' = score + 1
                     /\ feedback' = <<W("Great job! That's correct.")>>
                ELSE /\ feedback' =
                          run_operation("answer",
                              [question |-> exercise.question,
                               context |-> lesson_context,
                               student_answer |-> student_answer],
                              apiKey, r, rngPos).result.value
                     /\ UNCHANGED score
    /\ UNCHANGED <<gameVars, contentVars, storeVars, page, student_id, progress,
                   lessonVars, listVars, exercises, index, lesson_context,
                   historyVars>>

\* Mutant: a quiz already recorded for the lesson is replaced, not appended.
record_test_once(sc, total) ==
    IF ~(Set(current_subject) /\ Set(current_grade) /\ Set(current_topic))
    THEN UNCHANGED <<progress, files>>
    ELSE LET test_entry == [subject |-> current_subject.v,
                            grade |-> current_grade.v,
                            topic |-> current_topic.v,
                            score |-> sc, total |-> total]
             other(e) == ~(e.subject = test_entry.subject
                           /\ e.grade = test_entry.grade
                           /\ e.topic = test_entry.topic)
         IN  /\ progress' = [progress EXCEPT !.completed_tests =
                                Append(SelectSeq(@, other), test_entry)]
             /\ persist_progress(progress')

\* MainWindow._record_test(score, total), up to _show_lesson_list
record_test(sc, total) ==
    IF ~(Set(current_subject) /\ Set(current_grade) /\ Set(current_topic))
    THEN UNCHANGED <<progress, files>>
    ELSE LET test_entry == [subject |-> current_subject.v,
                            grade |-> current_grade.v,
                            topic |-> current_topic.v,
                            score |-> sc, total |-> total]
         IN  /\ progress' = [progress EXCEPT
                                !.completed_tests = Append(@, test_entry)]
             /\ persist_progress(progress')

\* TestPage._handle_next
NextClicked ==
    /\ page = "test"
    /\ IF exercises = <<>>
       THEN /\ page' = "lesson_list"
            /\ UNCHANGED <<index, feedback, progress, files, quizzes>>
       ELSE IF index < Len(exercises) - 1
       THEN /\ index' = index + 1
            /\ feedback' = <<>>
            /\ UNCHANGED <<page, progress, files, quizzes>>
       ELSE \* test_completed.emit(score, total) -> MainWindow._record_test
            /\ Len(quizzes) < MaxTests
            /\ record_test(score, Len(exercises))
            /\ quizzes' = (IF Set(current_subject) /\ Set(current_grade)
                              /\ Set(current_topic)
                           THEN Append(quizzes, Test(quizOf, score, Len(exercises)))
                           ELSE quizzes)
            /\ page' = "lesson_list"
            /\ UNCHANGED <<index, feedback>>
    /\ UNCHANGED <<gameVars, contentVars, saved, loaded, writable, student_id, lessonVars,
                   listVars,
                   exercises, score, lesson_context, startProgress, opened,
                   quizOf>>

(***************************************************************************)
(* games/labyrinth_game.py.  Positions are <<x, y>> = <<column, row>>,     *)
(* counted from 0 as in the source; GRID[row + 1][col + 1] is the cell.    *)
(***************************************************************************)
GRID ==
    << <<"#", "#", "#", "#", "#", "#", "#", "#", "#", "#", "#", "#", "#", "#", "#", "#", "#", "#", "#", "#">>,
      <<"#", "S", " ", " ", " ", "#", " ", " ", " ", " ", " ", " ", " ", " ", " ", "#", " ", " ", " ", "#">>,
      <<"#", "#", "#", " ", "#", "#", "#", " ", "#", "#", "#", "#", " ", "#", " ", "#", " ", "#", " ", "#">>,
      <<"#", " ", " ", " ", " ", " ", "#", " ", " ", " ", " ", "#", " ", "#", " ", "#", " ", "#", " ", "#">>,
      <<"#", " ", "#", "#", "#", " ", "#", "#", "#", "#", " ", "#", " ", "#", " ", "#", " ", "#", " ", "#">>,
      <<"#", " ", "#", " ", " ", " ", "#", " ", " ", " ", " ", "#", " ", " ", " ", "#", " ", " ", " ", "#">>,
      <<"#", " ", "#", " ", "#", "#", "#", " ", "#", "#", "#", "#", "#", "#", "#", " ", "#", "#", "#", "E">>,
      <<"#", " ", "#", " ", " ", " ", "#", " ", " ", " ", " ", " ", " ", " ", "#", " ", " ", " ", "#", "#">>,
      <<"#", " ", "#", "#", "#", " ", "#", " ", "#", "#", "#", "#", "#", " ", "#", "#", "#", " ", " ", "#">>,
      <<"#", " ", " ", " ", " ", " ", "#", " ", " ", " ", " ", " ", "#", " ", " ", " ", " ", " ", "#", "#">>,
      <<"#", "#", "#", "#", "#", "#", "#", "#", "#", "#", "#", "#", "#", "#", "#", "#", "#", "#", "#", "#">> >>

ROWS == Len(GRID)
COLS == Len(GRID[1])

Cell(col, row) == GRID[row + 1][col + 1]

\* the cells with the letter, in the order the two loops visit them
CellsWith(letter) ==
    LET at(k) == <<k % COLS, k \div COLS>>
        hit(k) == Cell(at(k)[1], at(k)[2]) = letter
        ks == SelectSeq([k \in 1..(ROWS * COLS) |-> k - 1], hit)
    IN  [i \in 1..Len(ks) |-> at(ks[i])]

\* _find_positions: the last S and the last E found, <<1, 1>> without one
find_positions ==
    LET last(seq) == IF seq = <<>> THEN <<1, 1>> ELSE seq[Len(seq)]
    IN  [start |-> last(CellsWith("S")), exit_pos |-> last(CellsWith("E"))]

\* _is_wall(col, row)
is_wall(col, row) ==
    IF 0 <= row /\ row < ROWS /\ 0 <= col /\ col < COLS
    THEN Cell(col, row) = "#"
    ELSE TRUE

\* Mutant: the move is made whatever _is_wall answers.
attempt_move_unchecked(position, dx, dy) ==
    <<position[1] + dx, position[2] + dy>>

\* _attempt_move(player, dx, dy): the position after it
attempt_move(position, dx, dy) ==
    LET new_x == position[1] + dx
        new_y == position[2] + dy
    IN  IF ~is_wall(new_x, new_y) THEN <<new_x, new_y>> ELSE position

\* the events pygame.event.get() hands over: QUIT, or KEYDOWN with a key
Events == {"QUIT", "K_ESCAPE", "K_UP", "K_w", "K_DOWN", "K_s", "K_LEFT", "K_a",
           "K_RIGHT", "K_d", "K_SPACE"}

EventBatches == UNION {[1..n -> Events] : n \in 0..MaxEvents}

\* the body of "for event in pygame.event.get()" for one event
handle_event(event, g) ==
    CASE event \in {"QUIT", "K_ESCAPE"} -> [g EXCEPT !.running = FALSE]
      [] event \in {"K_UP", "K_w"} ->
            [g EXCEPT !.position = attempt_move(g.position, 0, -1)]
      [] event \in {"K_DOWN", "K_s"} ->
            [g EXCEPT !.position = attempt_move(g.position, 0, 1)]
      [] event \in {"K_LEFT", "K_a"} ->
            [g EXCEPT !.position = attempt_move(g.position, -1, 0)]
      [] event \in {"K_RIGHT", "K_d"} ->
            [g EXCEPT !.position = attempt_move(g.position, 1, 0)]
      [] OTHER -> g

RECURSIVE handle_events(_, _)
handle_events(events, g) ==
    IF events = <<>> THEN g
    ELSE handle_events(Tail(events), handle_event(Head(events), g))

\* MainWindow._launch_game -> run_labyrinth_game, up to the loop; without
\* pygame a message box is shown and nothing else happens
LaunchGame(available) ==
    /\ page = "lesson_list"
    /\ gamePc \in {"idle", "returned"}
    /\ IF available
       THEN /\ gamePc' = "loop"
            /\ player' = find_positions.start
            /\ running' = TRUE
            /\ won' = FALSE
       ELSE UNCHANGED gameVars
    /\ UNCHANGED <<contentVars, storeVars, sessionVars>>

\* one pass of "while running": the events of the frame, then the test for
\* the exit; when running is false the outcome is shown and the call returns
Frame(events) ==
    /\ gamePc = "loop"
    /\ running
    /\ LET g == handle_events(events, [position |-> player, running |-> running])
           at_exit == g.position = find_positions.exit_pos
       IN  /\ player' = g.position
           /\ won' = (IF at_exit THEN TRUE ELSE won)
           /\ running' = (IF at_exit THEN FALSE ELSE g.running)
           /\ gamePc' = (IF running' THEN "loop" ELSE "returned")
    /\ UNCHANGED <<contentVars, storeVars, sessionVars>>

(***************************************************************************)
(* Initial states and specifications.                                      *)
(***************************************************************************)
\* the state MainWindow.__init__ builds
InitWindow ==
    /\ page = "intro"
    /\ student_id = DefaultStudent
    /\ progress = StudentProgress(DefaultStudent, <<>>, <<>>)
    /\ current_subject = None
    /\ current_grade = None
    /\ current_topic = None
    /\ current_lesson_text = <<>>
    /\ grade_combo = None
    /\ subject_items = <<>>
    /\ subject_combo = None
    /\ topic_items = <<>>
    /\ topic_current = None
    /\ exercises = <<>>
    /\ index = 0
    /\ score = 0
    /\ lesson_context = <<>>
    /\ feedback = <<>>
    /\ startProgress = StudentProgress(DefaultStudent, <<>>, <<>>)
    /\ opened = <<>>
    /\ quizOf = NoArgs
    /\ quizzes = <<>>
    /\ gamePc = "idle"
    /\ player = find_positions.start
    /\ running = FALSE
    /\ won = FALSE

EmptyDisk == [p \in Paths |-> NoFile]

InitStore(disk) ==
    /\ files = disk
    /\ saved = NotSaved
    /\ loaded = NotLoaded

InitContent(m) ==
    /\ apiKey \in BOOLEAN
    /\ rngPos = 0
    /\ pc = "idle"
    /\ op = "none"
    /\ args = NoArgs
    /\ netCalls = 0
    /\ response = NoResponse
    /\ result = NoResult
    /\ localCalls = 0
    /\ rngAtCall = 0
    /\ mock = m

NextContent ==
    \/ \E c \in Calls(mock) : Call(c[1], c[2])
    \/ EnterRequest
    \/ PostRequest
    \/ \E r \in Responses(mock) : Receive(r)
    \/ LocalFallback
    \/ \E c \in Calls(mock) : c[1] = "exercises" /\ CallLocalExercises(c[2])

\* The content provider against a failing endpoint.
Init == InitContent("failures") /\ InitStore(EmptyDisk) /\ writable = TRUE /\ InitWindow
Next == NextContent
Spec == Init /\ [][Next]_vars

\* The content provider against every candidate payload.
InitPayloads == InitContent("payloads") /\ InitStore(EmptyDisk) /\ writable = TRUE /\ InitWindow
SpecPayloads == InitPayloads /\ [][Next]_vars

\* generate_exercises against every exercise text.
InitExercises == InitContent("exercises") /\ InitStore(EmptyDisk) /\ writable = TRUE /\ InitWindow
SpecExercises == InitExercises /\ [][Next]_vars

\* The progress store called directly.
InitStoreOnly == InitContent("failures") /\ InitStore(EmptyDisk) /\ writable = TRUE /\ InitWindow
NextStore ==
    \/ \E p \in StoredRecords : SaveProgress(p)
    \/ \E id \in StoreIds : LoadProgress(id)
SpecStore == InitStoreOnly /\ [][NextStore]_vars

\* the records an earlier session of "ann" may have left on the disk
EarlierRecords ==
    {StudentProgress(<<"a", "n", "n">>,
        <<Lesson(Request("Science", 4, "Energy")),
          Lesson(Request("Mathematics", 3, "Fractions"))>>,
        <<Test(Request("Science", 4, "Energy"), 1, 3)>>)}

InitialDisks == {save_progress(p, EmptyDisk) : p \in EarlierRecords}

TypedNames == {<<>>, <<" ", "a", "n", "n">>}

\* the grade the student picks in the grade combo
PickedGrades == {4}

\* One run of the application.
InitSession ==
    /\ InitContent("failures")
    /\ apiKey
    /\ \E disk \in InitialDisks : InitStore(disk)
    /\ writable \in BOOLEAN
    /\ InitWindow
NextSession ==
    \/ \E typed \in TypedNames : StartClicked(typed)
    \/ \E g \in {None} \cup {Some(x) : x \in Range(get_available_grades)
                                            \cap PickedGrades} : GradeChanged(g)
    \/ \E s \in {None} \cup {Some(x) : x \in DOMAIN LOCAL_CONTENT} : SubjectChanged(s)
    \/ \E t \in Range(topic_items) : TopicClicked(t)
    \/ \E r \in LessonResponses : OpenLessonClicked(r)
    \/ BackClicked
    \/ ViewProgressClicked
    \/ \E r \in QuizResponses : StartTestClicked(r)
    \/ \E r \in AnswerResponses :
          \E typed \in (IF exercises = <<>> \/ score >= MaxPoints THEN {<<>>}
                        ELSE TypedAnswers(exercises[index + 1])) :
              SubmitClicked(typed, r)
    \/ NextClicked
SpecSession == InitSession /\ [][NextSession]_vars

\* The quizzes of one lesson: of one question or of two sent by the
\* endpoint, or the local one, with any answers typed.
SomeQuizResponses ==
    QuizResponses \cup {HttpError, Body(<<<<TextPart(<<J(SampleList)>>)>>>>)}

NextQuiz ==
    \/ \E typed \in TypedNames : StartClicked(typed)
    \/ GradeChanged(Some(4))
    \/ SubjectChanged(Some("Science"))
    \/ \E t \in Range(topic_items) : TopicClicked(t)
    \/ \E r \in LessonResponses : OpenLessonClicked(r)
    \/ BackClicked
    \/ \E r \in SomeQuizResponses : StartTestClicked(r)
    \/ \E r \in AnswerResponses :
          \E typed \in (IF exercises = <<>> THEN {<<>>}
                        ELSE TypedAnswers(exercises[index + 1])) :
              SubmitClicked(typed, r)
    \/ NextClicked
SpecQuiz == InitSession /\ [][NextQuiz]_vars

\* The lesson list page with every grade of the table, and the lessons
\* opened from it.
GradeChoices ==
    {None} \cup {Some(get_available_grades[i]) :
                    i \in 1..Len(get_available_grades)}

NextLessonList ==
    \/ \E typed \in TypedNames : StartClicked(typed)
    \/ \E g \in GradeChoices : GradeChanged(g)
    \/ \E s \in {None} \cup {Some(x) : x \in DOMAIN LOCAL_CONTENT} : SubjectChanged(s)
    \/ \E t \in Range(topic_items) : TopicClicked(t)
    \/ \E r \in LessonResponses : OpenLessonClicked(r)
    \/ BackClicked
SpecLessonList == InitSession /\ [][NextLessonList]_vars

\* The labyrinth game launched from the lesson list.
NextGame ==
    \/ \E typed \in TypedNames : StartClicked(typed)
    \/ \E available \in BOOLEAN : LaunchGame(available)
    \/ \E events \in EventBatches : Frame(events)
SpecGame == InitSession /\ [][NextGame]_vars

(***************************************************************************)
(* Vocabulary of the properties of the content provider.                   *)
(***************************************************************************)
RemoteOps == {"lesson", "exercises", "answer"}

\* the operation in flight has returned or raised
Completed == pc \in {"Success", "Done"} /\ op \in RemoteOps

\* the operation in flight completed through its except branch
FellBack == pc = "Done" /\ op \in RemoteOps

\* the local generator of the operation in flight, called directly with the
\* same inputs when the random generator stands at pos
LocalAt(pos) ==
    CASE op = "lesson" ->
            generate_local_lesson(args.subject, args.grade, args.topic)
      [] op = "exercises" ->
            generate_local_exercises(args.subject, args.grade, args.topic, pos).result
      [] op = "answer" ->
            Return(answer_question_locally(args.question, args.context))

IsPermutation(a, b) ==
    /\ Len(a) = Len(b)
    /\ \E f \in Permutations(1..Len(a)) : \A i \in 1..Len(a) : a[i] = b[f[i]]

SameUpToOrder(x, y) ==
    /\ x.kind = y.kind
    /\ x.kind = "raise" => x = y
    /\ x.kind = "return" => IsPermutation(x.value, y.value)

\* the positions <<candidate, part>> of a response body that hold text
TextPositions(r) ==
    {<<i, j>> \in UNION {{<<i, j>> : j \in DOMAIN r.candidates[i]} :
                         i \in DOMAIN r.candidates} :
        r.candidates[i][j].has /\ r.candidates[i][j].text # <<>>}

\* the response is a body with a non-empty text field somewhere
SomeText(r) == r.kind = "body" /\ TextPositions(r) # {}

\* the first non-empty text field, candidates and their parts in order
ScanText(r) ==
    LET p == CHOOSE p \in TextPositions(r) :
                \A q \in TextPositions(r) :
                    p[1] < q[1] \/ (p[1] = q[1] /\ p[2] <= q[2])
    IN  r.candidates[p[1]][p[2]].text

\* text without its leading and trailing whitespace
Trimmed(s) ==
    LET solid == {i \in 1..Len(s) : ~IsSpace(s[i])}
    IN  IF solid = {} THEN <<>>
        ELSE SubSeq(s, CHOOSE i \in solid : \A j \in solid : i <= j,
                       CHOOSE i \in solid : \A j \in solid : i >= j)

\* the request itself failed: no key, or no text came back
RequestFailed == ~apiKey \/ ~SomeText(response)

\* an entry with a question that is non-empty after trimming
UsableQuestion(e) ==
    /\ e.k = "obj"
    /\ e.f.question.has
    /\ Trimmed(Str(e.f.question.v)) # <<>>

Kept(entries) == SelectSeq(entries, UsableQuestion)

AsExercise(e) ==
    [question |-> Trimmed(Str(e.f.question.v)),
     expected_answer |->
        IF e.f.expected_answer.has THEN Trimmed(Str(e.f.expected_answer.v))
        ELSE <<>>,
     hint |-> IF e.f.hint.has THEN Str(e.f.hint.v) ELSE DefaultHint]

\* the exercises a JSON array stands for: its usable entries, in order
ExercisesOf(entries) ==
    [i \in 1..Len(Kept(entries)) |-> AsExercise(Kept(entries)[i])]

\* the text of the response parses as a JSON array
ParsesAsList(text) == json_loads(text).ok /\ json_loads(text).value.k = "list"

EntriesOf(text) == json_loads(text).value.items

AllObjects(entries) == \A i \in 1..Len(entries) : entries[i].k = "obj"

\* the four reasons for the fallback of generate_exercises
FallbackReasons ==
    \/ RequestFailed
    \/ ~json_loads(ScanText(response)).ok
    \/ ~ParsesAsList(ScanText(response))
    \/ Kept(EntriesOf(ScanText(response))) = <<>>

\* ... and the fifth
AllFallbackReasons ==
    \/ FallbackReasons
    \/ ~AllObjects(EntriesOf(ScanText(response)))

\* the remote attempt of the operation in flight failed
RemoteFailed ==
    IF op = "exercises" THEN AllFallbackReasons ELSE RequestFailed

(***************************************************************************)
(* C1 (as stated): whenever the remote attempt fails, generate_lesson,     *)
(* generate_exercises and answer_question return the same value as a       *)
(* direct call of the local generator with identical inputs, at any point  *)
(* in a sequence of calls.                                                 *)
(***************************************************************************)
C1_FallbackEqualsDirectCall == FellBack => result = LocalAt(rngPos)

(***************************************************************************)
(* C1 (amended): whenever the remote attempt fails, generate_lesson and    *)
(* answer_question return the same value as a direct call of the local     *)
(* generator with identical inputs; generate_exercises returns what        *)
(* generate_local_exercises returns from the state the shared random       *)
(* generator was in at the call, which is the same exercises as any later  *)
(* direct call with identical inputs, in a possibly different order.       *)
(***************************************************************************)
C1_FallbackIsLocalUpToOrder ==
    FellBack =>
        /\ op \in {"lesson", "answer"} => result = LocalAt(rngPos)
        /\ op = "exercises" =>
              /\ result = LocalAt(rngAtCall)
              /\ SameUpToOrder(result, LocalAt(rngPos))

C1_Witness ==
    /\ FellBack
    /\ op = "exercises"
    /\ response = HttpError
    /\ rngAtCall > 0
    /\ result.kind = "return"
    /\ result # LocalAt(rngPos)

(***************************************************************************)
(* C2: the only failure that escapes generate_lesson or generate_exercises *)
(* is the local lookup error, exactly when the remote attempt fails and    *)
(* the triple is absent from LOCAL_CONTENT; answer_question never raises.  *)
(***************************************************************************)
C2_OnlyLookupErrorEscapes ==
    Completed =>
        /\ result.kind \in {"return", "raise"}
        /\ result.kind = "raise" => result.exc = "KeyError"
        /\ op \in {"lesson", "exercises"} =>
              (result.kind = "raise" <=>
                  (RemoteFailed /\ ~InTable(args.subject, args.grade, args.topic)))
        /\ op = "answer" => result.kind = "return"

C2_Witness ==
    /\ Completed
    /\ op = "lesson"
    /\ response = Malformed
    /\ result = Raise("KeyError")

(***************************************************************************)
(* C3: an invocation goes Start -> RemoteAttempt -> (Success |             *)
(* LocalFallback); it issues exactly one network call when a key is        *)
(* configured and none otherwise, never a second one, and never returns to *)
(* the remote attempt from the fallback.                                   *)
(***************************************************************************)
C3_SingleAttempt ==
    [][/\ pc = "Start" => pc' = "RemoteAttempt" /\ netCalls' = 0
       /\ pc = "RemoteAttempt" =>
             /\ pc' = (IF apiKey THEN "Posted" ELSE "LocalFallback")
             /\ netCalls' = (IF apiKey THEN 1 ELSE 0)
       /\ pc = "Posted" =>
             /\ pc' \in {"Success", "LocalFallback"}
             /\ netCalls' = 1
       /\ pc = "LocalFallback" => pc' = "Done" /\ netCalls' = netCalls
       /\ pc \in {"Success", "Done"} => pc' \in {"Start", "Done"}
       /\ (pc' \in {"Success", "Done"} /\ op' \in RemoteOps) =>
             netCalls' = (IF apiKey THEN 1 ELSE 0)]_vars

C3_Witness ==
    /\ FellBack
    /\ apiKey
    /\ netCalls = 1
    /\ response = NetworkError

(***************************************************************************)
(* C4: on a well-formed candidate payload generate_lesson and              *)
(* answer_question return the first non-empty text field, scanning the     *)
(* candidates and their parts in order, trimmed, and the local generator   *)
(* is not invoked.                                                         *)
(***************************************************************************)
C4_RemoteTextReturned ==
    (Completed /\ op \in {"lesson", "answer"} /\ apiKey /\ SomeText(response)) =>
        /\ pc = "Success"
        /\ localCalls = 0
        /\ result = Return(Trimmed(ScanText(response)))

C4_Witness ==
    /\ pc = "Success"
    /\ op = "lesson"
    /\ Len(response.candidates) = 2
    /\ response.candidates[1] = <<TextPart(<<>>)>>
    /\ result = Return(<<W("alpha")>>)

(***************************************************************************)
(* C5 (as stated): when the remote text parses as a JSON array,            *)
(* generate_exercises returns exactly the entries with a usable question,  *)
(* in order, with the default hint and the empty expected answer filled in.*)
(***************************************************************************)
C5_UsableEntriesReturned ==
    (Completed /\ op = "exercises" /\ ~RequestFailed
        /\ ParsesAsList(ScanText(response))) =>
        result = Return(ExercisesOf(EntriesOf(ScanText(response))))

(***************************************************************************)
(* C5 (amended): when the remote text parses as a JSON array whose entries *)
(* are all objects and at least one of them has a usable question,         *)
(* generate_exercises returns exactly the entries with a usable question,  *)
(* in order, with the default hint and the empty expected answer filled in.*)
(***************************************************************************)
C5_UsableEntriesOfObjectList ==
    (Completed /\ op = "exercises" /\ ~RequestFailed
        /\ ParsesAsList(ScanText(response))
        /\ AllObjects(EntriesOf(ScanText(response)))
        /\ Kept(EntriesOf(ScanText(response))) # <<>>) =>
        /\ pc = "Success"
        /\ result = Return(ExercisesOf(EntriesOf(ScanText(response))))

C5_Witness ==
    /\ pc = "Success"
    /\ op = "exercises"
    /\ Len(EntriesOf(ScanText(response))) = 2
    /\ ~EntriesOf(ScanText(response))[1].f.question.has
    /\ Len(result.value) = 1
    /\ result.value[1].hint = DefaultHint
    /\ result.value[1].expected_answer = <<>>

(***************************************************************************)
(* C6 (as stated): generate_exercises falls back exactly when the request  *)
(* fails, the text is not parseable JSON, the parsed value is not a list,  *)
(* or no valid exercise remains; otherwise it returns the remote           *)
(* exercises, and for a triple of the local table it never returns an      *)
(* empty list.                                                             *)
(***************************************************************************)
C6_FallbackExactlyOnFourReasons ==
    (Completed /\ op = "exercises") =>
        /\ pc = "Done" <=> FallbackReasons
        /\ pc = "Success" =>
              result = Return(ExercisesOf(EntriesOf(ScanText(response))))
        /\ InTable(args.subject, args.grade, args.topic) =>
              result.kind = "return" /\ result.value # <<>>

(***************************************************************************)
(* C6 (amended): generate_exercises falls back exactly when the request    *)
(* fails, the text is not parseable JSON, the parsed value is not a list,  *)
(* some entry of the list is not an object, or no valid exercise remains;  *)
(* otherwise it returns the remote exercises, and for a triple of the      *)
(* local table it never returns an empty list.                             *)
(***************************************************************************)
C6_FallbackExactlyOnFiveReasons ==
    (Completed /\ op = "exercises") =>
        /\ pc = "Done" <=> AllFallbackReasons
        /\ pc = "Done" => localCalls = 1
        /\ pc = "Success" =>
              /\ localCalls = 0
              /\ result = Return(ExercisesOf(EntriesOf(ScanText(response))))
        /\ InTable(args.subject, args.grade, args.topic) =>
              result.kind = "return" /\ result.value # <<>>

C6_Witness ==
    /\ FellBack
    /\ op = "exercises"
    /\ ~FallbackReasons
    /\ ~AllObjects(EntriesOf(ScanText(response)))
    /\ result.kind = "return"

(***************************************************************************)
(* Vocabulary of the properties of the session and of the store.           *)
(***************************************************************************)
Started == page # "intro"

NoDuplicates(seq) == \A i, j \in 1..Len(seq) : seq[i] = seq[j] => i = j

Occurrences(seq, x) == Cardinality({i \in 1..Len(seq) : seq[i] = x})

\* the lessons opened in the session that the record of its start did not hold
NewlyOpened ==
    LET new(r) == Lesson(r) \notin Range(startProgress.completed_lessons)
        rs == SelectSeq(opened, new)
    IN  [i \in 1..Len(rs) |-> Lesson(rs[i])]

\* the step shows a lesson that the record already holds
OpensRecordedLesson ==
    /\ page = "lesson_list"
    /\ page' = "lesson"
    /\ Lesson(Request(current_subject'.v, current_grade'.v, current_topic'.v))
          \in Range(progress.completed_lessons)

\* C7: in a session started from a record without duplicates,
\* completed_lessons holds every lesson opened exactly once, the lessons of
\* the start record first and the others in order of first opening, and
\* opening a lesson already recorded leaves completed_lessons unchanged.
C7_LessonsRecordedOnce ==
    /\ [](Started /\ NoDuplicates(startProgress.completed_lessons) =>
            /\ progress.completed_lessons =
                  startProgress.completed_lessons \o NewlyOpened
            /\ NoDuplicates(progress.completed_lessons)
            /\ \A r \in Range(opened) :
                  Occurrences(progress.completed_lessons, Lesson(r)) = 1)
    /\ [][OpensRecordedLesson =>
            progress'.completed_lessons = progress.completed_lessons]_vars

\* Energy was recorded by an earlier session, Decimals is opened first, then
\* Energy again, and a quiz has been completed
C7_Witness ==
    /\ page = "lesson"
    /\ startProgress.completed_lessons # <<>>
    /\ opened = <<Request("Mathematics", 4, "Decimals"),
                  Request("Science", 4, "Energy")>>
    /\ Len(progress.completed_lessons) = 3
    /\ quizzes # <<>>

\* C8: completed_tests is the list of the start of the session followed by
\* one entry {subject, grade, topic, score, total} per completed quiz, for
\* the lesson the quiz was started from, in completion order.
C8_EveryQuizAppended ==
    Started => progress.completed_tests = startProgress.completed_tests \o quizzes

\* two quizzes of the same lesson with different scores, after a recorded one
C8_Witness ==
    /\ Len(quizzes) = 2
    /\ startProgress.completed_tests # <<>>
    /\ quizzes[1].topic = quizzes[2].topic
    /\ quizzes[1].topic = startProgress.completed_tests[1].topic
    /\ quizzes[1].score # quizzes[2].score
    /\ Len(progress.completed_tests) = 3

\* C9: load_progress(p.student_id) after save_progress(p) returns p: the
\* same student_id and the same two lists, element for element.
C9_RoundTrip ==
    saved # NotSaved /\ loaded # NotLoaded /\ loaded.student_id = saved.student_id
        => /\ loaded.student_id = saved.student_id
           /\ loaded.completed_lessons = saved.completed_lessons
           /\ loaded.completed_tests = saved.completed_tests

\* two different lessons and a test come back in the order they were saved
C9_Witness ==
    /\ saved # NotSaved
    /\ loaded # NotLoaded
    /\ loaded.student_id = saved.student_id
    /\ Len(saved.completed_lessons) = 2
    /\ saved.completed_lessons[1] # saved.completed_lessons[2]
    /\ Len(saved.completed_tests) = 1
    /\ loaded = saved

\* the record of the student of the session, as the data directory has it
Persisted == load_progress(student_id, files)

\* the step changes the progress record in memory
ProgressChanged == progress' # progress

C10_SaveLeavesOtherStudents ==
    [][saved' # NotSaved /\ files' # files =>
          \A b \in StoreIds :
              b # saved'.student_id =>
                  load_progress(b, files') = load_progress(b, files)]_vars

\* the data directory holds a record saved for the student id
HasRecord(id) ==
    /\ files[progress_path(id)] # NoFile
    /\ json_load(files[progress_path(id)]).student_id = id

\* C12: load_progress returns the student id it was asked for, and for a
\* student id that has no stored record it returns empty completed_lessons
\* and completed_tests.
C12_NoRecordLoadsEmpty ==
    /\ \A id \in StoreIds : load_progress(id, files).student_id = id
    /\ loaded # NotLoaded /\ ~HasRecord(loaded.student_id) =>
          /\ loaded.completed_lessons = <<>>
          /\ loaded.completed_tests = <<>>

\* a call of the local exercise generator has returned, made directly or by
\* the except branch of generate_exercises
LocalExercisesDone ==
    /\ pc = "Done"
    /\ op \in {"local_exercises", "exercises"}
    /\ args \in TableRequests

QuestionsOf(exs) == {exs[i].question : i \in 1..Len(exs)}

\* the first call of a run, made when the generator has just been seeded
FirstCall ==
    generate_local_exercises(args.subject, args.grade, args.topic, 0).result

\* C13: for a triple of the table generate_local_exercises returns at least
\* one exercise, each with a question and a hint that are not empty, and
\* the same set of questions as any other call for the triple, whatever the
\* order.
C13_LocalExercisesStable ==
    LocalExercisesDone =>
        /\ result.kind = "return"
        /\ Len(result.value) >= 1
        /\ \A i \in 1..Len(result.value) :
              /\ Truthy(result.value[i].question)
              /\ Truthy(result.value[i].hint)
        /\ QuestionsOf(result.value) = QuestionsOf(FirstCall.value)
        /\ Len(result.value) = Len(FirstCall.value)

\* a later call returns the questions of the first call in another order
C13_Witness ==
    /\ LocalExercisesDone
    /\ op = "local_exercises"
    /\ rngAtCall > 0
    /\ result.value # FirstCall.value
    /\ QuestionsOf(result.value) = QuestionsOf(FirstCall.value)

\* what lesson_selected would emit if Open Lesson were clicked now
Selected ==
    Request(subject_combo.v, grade_combo.v, topic_current.v)

SelectionComplete == grade_combo.has /\ subject_combo.has /\ topic_current.has

\* C14: after any sequence of grade, subject and topic selections the topic
\* list shows the topics of the selected grade and subject, the triple that
\* lesson_selected emits is in LOCAL_CONTENT, and so is every lesson that
\* was opened.
C14_OnlyExistingLessonsOffered ==
    /\ topic_items = (IF grade_combo.has /\ subject_combo.has
                      THEN get_topics(subject_combo.v, grade_combo.v) ELSE <<>>)
    /\ topic_current.has => topic_current.v \in Range(topic_items)
    /\ SelectionComplete =>
          /\ Selected \in TableRequests
          /\ select_content(Selected.subject, Selected.grade, Selected.topic).ok
    /\ current_subject.has =>
          Request(current_subject.v, current_grade.v, current_topic.v)
              \in TableRequests

\* a lesson of grade 3 was opened, then the grade was changed to 4 and a
\* topic of grade 4 selected
C14_Witness ==
    /\ page = "lesson_list"
    /\ current_grade = Some(3)
    /\ grade_combo = Some(4)
    /\ SelectionComplete
    /\ Len(progress.completed_lessons) >= 2

(***************************************************************************)
(* Vocabulary of the properties of the labyrinth game.                     *)
(***************************************************************************)
Steps == {<<0, -1>>, <<0, 1>>, <<-1, 0>>, <<1, 0>>}

\* the cells some sequence of moves accepted by _attempt_move leads to
RECURSIVE ReachableFrom(_)
ReachableFrom(cells) ==
    LET more == cells \cup {attempt_move(c, d[1], d[2]) : c \in cells, d \in Steps}
    IN  IF more = cells THEN cells ELSE ReachableFrom(more)

InsideGrid(position) ==
    /\ 0 <= position[1] /\ position[1] < COLS
    /\ 0 <= position[2] /\ position[2] < ROWS

\* C15: the game returns with won = True exactly when the player stands on
\* the exit, and while it runs some sequence of legal moves leads the player
\* to the E cell.
C15_ExitCanBeReached ==
    /\ gamePc = "returned" => (won <=> player = find_positions.exit_pos)
    /\ gamePc = "loop" => find_positions.exit_pos \in ReachableFrom({player})

\* C16: the score of every quiz reported by test_completed lies between 0
\* and the number of exercises loaded, and during a quiz every exercise
\* shown so far has given at most one point.
C16_ScoreWithinTotal ==
    /\ \A i \in 1..Len(quizzes) :
          0 <= quizzes[i].score /\ quizzes[i].score <= quizzes[i].total
    /\ page = "test" /\ exercises # <<>> =>
          0 <= score /\ score <= index + 1

\* the cell is outside the grid or holds a wall
Blocked(position) ==
    ~InsideGrid(position) \/ Cell(position[1], position[2]) = "#"

Moved(position, d) == <<position[1] + d[1], position[2] + d[2]>>

FreeCells ==
    {c \in (0..(COLS - 1)) \X (0..(ROWS - 1)) : ~Blocked(c)}

\* C17: once the game is launched the player stands inside the grid and not
\* on a wall, and from any free cell a move into a wall or out of the grid
\* leaves the position unchanged.
C17_PlayerStaysOnFreeCells ==
    /\ gamePc # "idle" => InsideGrid(player) /\ ~Blocked(player)
    /\ \A c \in FreeCells : \A d \in Steps :
          Blocked(Moved(c, d)) => attempt_move(c, d[1], d[2]) = c

\* the player has walked to the far corner of the part it can reach, where
\* two of the four moves are refused
C17_Witness ==
    /\ gamePc = "loop"
    /\ player = <<5, 9>>
    /\ Blocked(Moved(player, <<1, 0>>))
    /\ Blocked(Moved(player, <<0, 1>>))
    /\ attempt_move(player, 1, 0) = player

\* a quiz with exercises is on the screen
InQuiz == page = "test" /\ exercises # <<>>

\* load_exercises ran in the step: the lesson page gave way to the quiz
Loaded == page = "lesson" /\ page' = "test"

\* test_completed was emitted in the step
TestCompleted == quizzes' # quizzes

\* C18: during a quiz with exercises 0 <= index < number of exercises, the
\* index changes only by one, on a Next click, or back to 0 when
\* load_exercises starts a quiz, which also sets the score to 0; and
\* test_completed is emitted only by a Next click on the last exercise.
C18_IndexWalksTheQuiz ==
    [][/\ InQuiz' => 0 <= index' /\ index' < Len(exercises')
       /\ Loaded => index' = 0 /\ score' = 0
       /\ index' # index =>
             \/ Loaded
             \/ /\ InQuiz /\ InQuiz'
                /\ index' = index + 1
                /\ UNCHANGED <<exercises, score, quizzes>>
       /\ TestCompleted =>
             /\ InQuiz
             /\ index = Len(exercises) - 1
             /\ Len(quizzes') = Len(quizzes) + 1
             /\ quizzes'[Len(quizzes')].total = Len(exercises)
             /\ UNCHANGED index]_vars

\* a second quiz, begun after one was completed at its last exercise, has
\* gone with Next from its first exercise to its second
C18_Witness ==
    /\ InQuiz
    /\ Len(quizzes) = 1
    /\ Len(exercises) = 2
    /\ index = 1

====
